---- MODULE Spec2Model ----
(***************************************************************************)
(* Fixed-point transcendental functions of src/src/transcendental.rs:      *)
(* sqrt, log2, ln, exp, pow (generic over a source format S and a          *)
(* destination format D) and sin, cos, tan (on I9F23).                     *)
(*                                                                         *)
(* A fixed-point value is its raw two's-complement bit pattern, an         *)
(* integer.  The destination formats reach 64 bits (I32F32) and products   *)
(* 128 bits, so integers are kept as sign and magnitude, the magnitude a   *)
(* little-endian sequence of limbs.                                        *)
(***************************************************************************)
EXTENDS Integers, Sequences, FiniteSets, TLC

VARIABLES fn, S, D, arg, arg2, build, out

vars == <<fn, S, D, arg, arg2, build, out>>

\* let x = value; Body(x): the value is computed once and bound to x
Let(value, Body(_)) == CHOOSE result \in { Body(x) : x \in { value } } : TRUE

---------------------------------------------------------------------------
(* Natural numbers of any size: <<>> is 0, limbs are base 2^15, no leading *)
(* zero limb.                                                              *)

Base == 2^15

Pow2(k) == 2^k

RECURSIVE NFromInt(_)
NFromInt(n) == IF n = 0 THEN <<>> ELSE <<n % Base>> \o NFromInt(n \div Base)

\* the value of a magnitude of at most two limbs
NSmall(a) == Len(a) <= 2

NToInt(a) ==
  IF Len(a) = 0 THEN 0
  ELSE IF Len(a) = 1 THEN a[1]
  ELSE IF Len(a) = 2 THEN a[1] + Base * a[2]
  ELSE a[1] + Base * a[2] + Base * Base * a[3]

RECURSIVE NNorm(_)
NNorm(a) ==
  IF Len(a) = 0 THEN a
  ELSE IF a[Len(a)] = 0 THEN NNorm(SubSeq(a, 1, Len(a) - 1))
  ELSE a

RECURSIVE NAddC(_, _, _)
NAddC(a, b, c) ==
  IF Len(a) = 0 /\ Len(b) = 0 THEN (IF c = 0 THEN <<>> ELSE <<c>>)
  ELSE LET x == IF Len(a) = 0 THEN 0 ELSE a[1]
           y == IF Len(b) = 0 THEN 0 ELSE b[1]
           s == x + y + c
       IN  <<s % Base>> \o NAddC(IF Len(a) = 0 THEN a ELSE Tail(a),
                                 IF Len(b) = 0 THEN b ELSE Tail(b),
                                 s \div Base)

NAdd(a, b) ==
  IF NSmall(a) /\ NSmall(b) THEN NFromInt(NToInt(a) + NToInt(b))
  ELSE NAddC(a, b, 0)

\* -1, 0, 1 as a < b, a = b, a > b
RECURSIVE NCmpFrom(_, _, _)
NCmpFrom(a, b, i) ==
  IF i = 0 THEN 0
  ELSE IF a[i] < b[i] THEN -1
  ELSE IF a[i] > b[i] THEN 1
  ELSE NCmpFrom(a, b, i - 1)

NCmp(a, b) ==
  IF Len(a) < Len(b) THEN -1
  ELSE IF Len(a) > Len(b) THEN 1
  ELSE NCmpFrom(a, b, Len(a))

\* a - b for a >= b
RECURSIVE NSubB(_, _, _)
NSubB(a, b, c) ==
  IF Len(a) = 0 THEN <<>>
  ELSE LET y == IF Len(b) = 0 THEN 0 ELSE b[1]
           d == a[1] - y - c
       IN  <<d % Base>> \o NSubB(Tail(a), IF Len(b) = 0 THEN b ELSE Tail(b),
                                 IF d < 0 THEN 1 ELSE 0)

NSub(a, b) ==
  IF NSmall(a) THEN NFromInt(NToInt(a) - NToInt(b))
  ELSE NNorm(NSubB(a, b, 0))

\* a * d + c for one limb d and a carry c < Base
RECURSIVE NMulLimb(_, _, _)
NMulLimb(a, d, c) ==
  IF Len(a) = 0 THEN (IF c = 0 THEN <<>> ELSE <<c>>)
  ELSE LET p == a[1] * d + c
       IN  <<p % Base>> \o NMulLimb(Tail(a), d, p \div Base)

RECURSIVE NMulLong(_, _)
NMulLong(a, b) ==
  IF Len(b) = 0 THEN <<>>
  ELSE LET rest == NMulLong(a, Tail(b))
       IN  NAddC(NMulLimb(a, b[1], 0),
                 IF Len(rest) = 0 THEN rest ELSE <<0>> \o rest, 0)

NMul(a, b) ==
  IF Len(a) = 0 \/ Len(b) = 0 THEN <<>>
  ELSE IF Len(a) = 1 /\ Len(b) = 1 THEN NFromInt(a[1] * b[1])
  ELSE NNorm(NMulLong(a, b))

\* a * 2^k
RECURSIVE NShl(_, _)
NShl(a, k) ==
  IF Len(a) = 0 \/ k = 0 THEN a
  ELSE IF k >= 15 THEN <<0>> \o NShl(a, k - 15)
  ELSE NMulLimb(a, Pow2(k), 0)

\* floor(a / 2^k)
RECURSIVE NShrBits(_, _)
NShrBits(a, r) ==
  IF Len(a) = 0 THEN <<>>
  ELSE LET hi == IF Len(a) >= 2 THEN a[2] % Pow2(r) ELSE 0
       IN  <<(a[1] \div Pow2(r)) + hi * Pow2(15 - r)>> \o NShrBits(Tail(a), r)

NShr(a, k) ==
  LET q == k \div 15
      r == k % 15
      dropped == IF q >= Len(a) THEN <<>> ELSE SubSeq(a, q + 1, Len(a))
  IN  IF r = 0 THEN dropped ELSE NNorm(NShrBits(dropped, r))

\* a mod 2^k
NLow(a, k) ==
  LET q == k \div 15
      r == k % 15
  IN  IF q >= Len(a) THEN a
      ELSE NNorm(SubSeq(a, 1, q) \o (IF r = 0 THEN <<>> ELSE <<a[q + 1] % Pow2(r)>>))

RECURSIVE BitLenInt(_)
BitLenInt(n) == IF n = 0 THEN 0 ELSE 1 + BitLenInt(n \div 2)

NBitLen(a) == IF Len(a) = 0 THEN 0 ELSE 15 * (Len(a) - 1) + BitLenInt(a[Len(a)])

NBit(a, i) ==
  LET q == i \div 15
  IN  IF q >= Len(a) THEN 0 ELSE (a[q + 1] \div Pow2(i % 15)) % 2

\* one step of binary long division: bit i of a enters the remainder; st is
\* the quotient and the remainder so far
NDivStep(a, b, i, st) ==
  Let(NAddC(NMulLimb(st.r, 2, 0), IF NBit(a, i) = 1 THEN <<1>> ELSE <<>>, 0),
      LAMBDA r2 :
        IF NCmp(r2, b) >= 0
        THEN [q |-> NAddC(NMulLimb(st.q, 2, 0), <<1>>, 0), r |-> NSub(r2, b)]
        ELSE [q |-> NMulLimb(st.q, 2, 0), r |-> r2])

\* the steps for bits hi down to lo, the upper half first
RECURSIVE NDivBits(_, _, _, _, _)
NDivBits(a, b, hi, lo, st) ==
  IF hi = lo THEN NDivStep(a, b, hi, st)
  ELSE Let(NDivBits(a, b, hi, (hi + lo + 1) \div 2, st), LAMBDA upper :
         NDivBits(a, b, (hi + lo + 1) \div 2 - 1, lo, upper))

\* floor(a / b) for b > 0
NDiv(a, b) ==
  IF NSmall(a) /\ NSmall(b) THEN NFromInt(NToInt(a) \div NToInt(b))
  ELSE IF NCmp(a, b) < 0 THEN <<>>
  ELSE NDivBits(a, b, NBitLen(a) - 1, 0, [q |-> <<>>, r |-> <<>>]).q

---------------------------------------------------------------------------
(* Integers of any size: sign and magnitude, zero is never negative.       *)

ZMk(neg, mag) == [neg |-> neg /\ Len(mag) > 0, mag |-> mag]

ZInt(n) == IF n < 0 THEN ZMk(TRUE, NFromInt(-n)) ELSE ZMk(FALSE, NFromInt(n))

\* the integer a small value stands for (below 2^31 in magnitude)
IntOf(z) == IF z.neg THEN -NToInt(z.mag) ELSE NToInt(z.mag)

ZZero == ZInt(0)

ZNeg(a) == ZMk(~a.neg, a.mag)

ZIsNeg(a) == a.neg

ZCmp(a, b) ==
  IF a.neg /\ ~b.neg THEN -1
  ELSE IF ~a.neg /\ b.neg THEN 1
  ELSE IF a.neg THEN NCmp(b.mag, a.mag)
  ELSE NCmp(a.mag, b.mag)

ZLt(a, b) == ZCmp(a, b) < 0
ZLe(a, b) == ZCmp(a, b) <= 0
ZGt(a, b) == ZCmp(a, b) > 0
ZGe(a, b) == ZCmp(a, b) >= 0

ZAdd(a, b) ==
  IF a.neg = b.neg THEN ZMk(a.neg, NAdd(a.mag, b.mag))
  ELSE IF NCmp(a.mag, b.mag) >= 0 THEN ZMk(a.neg, NSub(a.mag, b.mag))
  ELSE ZMk(b.neg, NSub(b.mag, a.mag))

ZSub(a, b) == ZAdd(a, ZNeg(b))

ZMul(a, b) == ZMk(a.neg # b.neg, NMul(a.mag, b.mag))

ZShl(a, k) == ZMk(a.neg, NShl(a.mag, k))

\* floor(a / 2^k): the arithmetic right shift
ZShr(a, k) ==
  IF ~a.neg THEN ZMk(FALSE, NShr(a.mag, k))
  ELSE ZMk(TRUE, NShr(NAdd(a.mag, NSub(NShl(<<1>>, k), <<1>>)), k))

\* a / b rounded towards zero, b # 0: Rust's integer division
ZQuot(a, b) == ZMk(a.neg # b.neg, NDiv(a.mag, b.mag))

\* a mod 2: the lowest bit of the two's-complement pattern
ZLowBit(a) == NBit(a.mag, 0)

ZAbs(a) == ZMk(FALSE, a.mag)

---------------------------------------------------------------------------
(* The fixed-point capability the functions are generic over.  A format is *)
(* [I, F]: I integer bits (the sign bit among them) and F fractional bits; *)
(* a value is its raw bit pattern in -2^(I+F-1) .. 2^(I+F-1) - 1.          *)
(* An unchecked operation yields [v, o]: the wrapped result and whether    *)
(* the exact result overflowed (a panic when overflow checks are compiled  *)
(* in, the wrapped value otherwise).  A checked operation yields           *)
(* [some, v].                                                              *)

Fmt(i, f) == [I |-> i, F |-> f]

NBits(fmt) == fmt.I + fmt.F

MinBits(fmt) == ZMk(TRUE, NShl(<<1>>, NBits(fmt) - 1))

MaxBits(fmt) == ZMk(FALSE, NSub(NShl(<<1>>, NBits(fmt) - 1), <<1>>))

Fits(fmt, z) ==
  \/ 15 * Len(z.mag) < NBits(fmt)
  \/ ZGe(z, MinBits(fmt)) /\ ZLe(z, MaxBits(fmt))

\* the two's-complement pattern of z cut to the format's width
Wrap(fmt, z) ==
  Let(NLow(z.mag, NBits(fmt)), LAMBDA low :
  Let(IF z.neg /\ Len(low) > 0 THEN NSub(NShl(<<1>>, NBits(fmt)), low) ELSE low,
      LAMBDA u :
        IF NBit(u, NBits(fmt) - 1) = 1
        THEN ZMk(TRUE, NSub(NShl(<<1>>, NBits(fmt)), u))
        ELSE ZMk(FALSE, u)))

Unchecked(fmt, exact) ==
  IF Fits(fmt, exact) THEN [v |-> exact, o |-> FALSE]
  ELSE [v |-> Wrap(fmt, exact), o |-> TRUE]

Checked(fmt, exact) ==
  IF Fits(fmt, exact) THEN [some |-> TRUE, v |-> exact]
  ELSE [some |-> FALSE, v |-> ZZero]

\* T::from_num(n) for an integer n
from_num(fmt, n) == Unchecked(fmt, ZShl(ZInt(n), fmt.F))

\* D::from(x) for x of format src: lossless, the fraction widened
FromFixed(src, dst, x) == ZShl(x, dst.F - src.F)

\* the product of two values, rounded down to the format's precision
MulExact(fmt, a, b) == ZShr(ZMul(a, b), fmt.F)

\* the quotient of two values, rounded towards zero, b # 0
DivExact(fmt, a, b) == ZQuot(ZShl(a, fmt.F), b)

Add(fmt, a, b) == Unchecked(fmt, ZAdd(a, b))

Sub(fmt, a, b) == Unchecked(fmt, ZSub(a, b))

Neg(fmt, a) == Unchecked(fmt, ZNeg(a))

Mul(fmt, a, b) == Unchecked(fmt, MulExact(fmt, a, b))

\* a / b: [v, o, dz], dz a division by zero (a panic in every build)
Div(fmt, a, b) ==
  IF b = ZZero THEN [v |-> ZZero, o |-> FALSE, dz |-> TRUE]
  ELSE [dz |-> FALSE] @@ Unchecked(fmt, DivExact(fmt, a, b))

checked_add(fmt, a, b) == Checked(fmt, ZAdd(a, b))

checked_mul(fmt, a, b) == Checked(fmt, MulExact(fmt, a, b))

checked_div(fmt, a, b) ==
  IF b = ZZero THEN [some |-> FALSE, v |-> ZZero]
  ELSE Checked(fmt, DivExact(fmt, a, b))

\* x compared with a constant c of ConstType (I9F23), by value: -1, 0, 1
ConstFmt == Fmt(9, 23)

CmpConst(fmt, x, c) == ZCmp(ZShl(x, ConstFmt.F), ZShl(c, fmt.F))

---------------------------------------------------------------------------
(* The constants of ConstType.                                             *)

ZERO == ZShl(ZInt(0), 23)

ONE == ZShl(ZInt(1), 23)

TWO == ZShl(ZInt(2), 23)

\* x & y for 0 <= x, y < 2^15
RECURSIVE BitAndInt(_, _)
BitAndInt(x, y) ==
  IF x = 0 \/ y = 0 THEN 0
  ELSE (x % 2) * (y % 2) + 2 * BitAndInt(x \div 2, y \div 2)

\* the low limb of the two's-complement pattern of a
LowLimb(a) ==
  IF Len(a.mag) = 0 THEN 0
  ELSE IF a.neg THEN (Base - a.mag[1]) % Base
  ELSE a.mag[1]

\* operand & lsb, for a mask lsb of one limb
BitAnd(operand, lsb) == ZInt(BitAndInt(LowLimb(operand), LowLimb(lsb)))

\* the bit pattern 1: T::from_num(1) >> T::frac_nbits()
Lsb(fmt) == ZShr(from_num(fmt, 1).v, fmt.F)

\* right-shift with rounding
rs(fmt, operand) == Add(fmt, ZShr(operand, 1), BitAnd(operand, Lsb(fmt)))

---------------------------------------------------------------------------
(* A function's result is [st, v, ovf, hp, iters]: st is "ok" (Ok(v), or   *)
(* the value v of a function with no error type) or "err" (Err(())); ovf,  *)
(* an unchecked operation overflowed on the way; hp, a panic of every      *)
(* build (a division by zero, an unwrap of None); iters, the iterations    *)
(* the refinement loop ran.                                                *)

Ret(st, v, ovf, hp, iters) ==
  [st |-> st, v |-> v, ovf |-> ovf, hp |-> hp, iters |-> iters]

\* a variant with one more iteration: 0..=D::frac_nbits()
SqrtIterationsInclusive(fmt) == fmt.F + 1

\* the number of Newton iterations: 0..D::frac_nbits()
SqrtIterations(fmt) == fmt.F

\* D::from_num(1).checked_div(operand): [some, v, o], o the overflow of
\* D::from_num(1)
Reciprocal(fmt, operand) ==
  Let(from_num(fmt, 1), LAMBDA one :
    [o |-> one.o] @@ checked_div(fmt, one.v, operand))

\* the first guess l = (operand / D::from_num(2)) + D::from_num(1), after
\* steps that overflowed or not (ovf)
NewtonStart(fmt, operand, ovf) ==
  Let(from_num(fmt, 2), LAMBDA two :
  Let(Div(fmt, operand, two.v), LAMBDA half :
  Let(from_num(fmt, 1), LAMBDA one :
  Let(Add(fmt, half.v, one.v), LAMBDA l0 :
    [l   |-> l0.v,
     ovf |-> ovf \/ two.o \/ half.o \/ one.o \/ l0.o,
     hp  |-> half.dz,
     i   |-> 0]))))

\* l = (l + operand / l) / D::from_num(2)
NewtonStep(fmt, operand, m) ==
  Let(Div(fmt, operand, m.l), LAMBDA q :
  Let(Add(fmt, m.l, q.v), LAMBDA s :
  Let(from_num(fmt, 2), LAMBDA two :
  Let(Div(fmt, s.v, two.v), LAMBDA h :
    [l   |-> h.v,
     ovf |-> m.ovf \/ q.o \/ s.o \/ two.o \/ h.o,
     hp  |-> m.hp \/ q.dz \/ h.dz,
     i   |-> m.i + 1]))))

\* k Newton steps in a row, the first half of them first
RECURSIVE NewtonLoop(_, _, _, _)
NewtonLoop(fmt, operand, m, k) ==
  IF k <= 0 THEN m
  ELSE IF k = 1 THEN NewtonStep(fmt, operand, m)
  ELSE Let(NewtonLoop(fmt, operand, m, k \div 2), LAMBDA first :
         NewtonLoop(fmt, operand, first, k - k \div 2))

\* the Newton iterations on the operand, and the inversion of the root of an
\* inverted operand
SqrtNewton(fmt, operand, invert, ovf) ==
  Let(NewtonLoop(fmt, operand, NewtonStart(fmt, operand, ovf),
                 SqrtIterations(fmt)),
      LAMBDA m :
        IF ~invert THEN Ret("ok", m.l, m.ovf, m.hp, m.i)
        ELSE Let(Reciprocal(fmt, m.l), LAMBDA r :
               IF r.some THEN Ret("ok", r.v, m.ovf \/ r.o, m.hp, m.i)
               ELSE Ret("err", ZZero, m.ovf \/ r.o, m.hp, m.i)))

\* square root
sqrt(src, dst, x) ==
  IF CmpConst(src, x, ZERO) < 0 THEN Ret("err", ZZero, FALSE, FALSE, 0)
  ELSE Let(FromFixed(src, dst, x), LAMBDA operand :
         IF CmpConst(dst, operand, ZERO) = 0 \/ CmpConst(dst, operand, ONE) = 0
         THEN Ret("ok", operand, FALSE, FALSE, 0)
         ELSE IF CmpConst(dst, operand, ONE) < 0
         THEN Let(Reciprocal(dst, operand), LAMBDA r :
                IF r.some THEN SqrtNewton(dst, r.v, TRUE, r.o)
                ELSE Ret("err", ZZero, r.o, FALSE, 0))
         ELSE SqrtNewton(dst, operand, FALSE, FALSE))

\* result += lsb; x = rs(x);
HalveStep(fmt, m) ==
  Let(Add(fmt, m.result, Lsb(fmt)), LAMBDA sum :
  Let(rs(fmt, m.x), LAMBDA h :
    [x |-> h.v, result |-> sum.v, ovf |-> m.ovf \/ sum.o \/ h.o]))

\* the integer part: halve while x >= TWO
RECURSIVE HalveLoop(_, _)
HalveLoop(fmt, m) ==
  IF CmpConst(fmt, m.x, TWO) < 0 THEN m
  ELSE HalveLoop(fmt, HalveStep(fmt, m))

\* the number of fractional bits refined: (0..D::frac_nbits()).rev()
Log2Iterations(fmt) == fmt.F

\* result <<= lsb: the bits shifted out of the pattern are lost
ShlBits(fmt, result, lsb) == Wrap(fmt, ZShl(result, IntOf(lsb)))

\* a variant that leaves the bit clear
BitOrSkipped(result, lsb) == result

\* result |= lsb, for lsb the bit pattern 1
BitOr(result, lsb) ==
  IF BitAnd(result, lsb) = lsb THEN result ELSE ZAdd(result, lsb)

\* one fractional bit: x *= x; result <<= lsb; if x >= TWO { ... }
SquareStep(fmt, m) ==
  Let(Mul(fmt, m.x, m.x), LAMBDA sq :
  Let(ShlBits(fmt, m.result, Lsb(fmt)), LAMBDA sh :
    IF CmpConst(fmt, sq.v, TWO) >= 0
    THEN Let(rs(fmt, sq.v), LAMBDA h :
           [x      |-> h.v,
            result |-> BitOr(sh, Lsb(fmt)),
            ovf    |-> m.ovf \/ sq.o \/ h.o,
            i      |-> m.i + 1])
    ELSE [x |-> sq.v, result |-> sh, ovf |-> m.ovf \/ sq.o, i |-> m.i + 1]))

\* k squaring steps in a row, the first half of them first
RECURSIVE SquareLoop(_, _, _)
SquareLoop(fmt, m, k) ==
  IF k <= 0 THEN m
  ELSE IF k = 1 THEN SquareStep(fmt, m)
  ELSE Let(SquareLoop(fmt, m, k \div 2), LAMBDA first :
         SquareLoop(fmt, first, k - k \div 2))

\* base 2 logarithm assuming self >= 1
log2_inner(fmt, operand) ==
  Let(from_num(fmt, 0), LAMBDA zero :
  Let(HalveLoop(fmt, [x |-> operand, result |-> zero.v, ovf |-> zero.o]),
      LAMBDA m1 :
        IF CmpConst(fmt, m1.x, ONE) = 0
        THEN Let(Unchecked(fmt, ZShl(m1.result, fmt.F)), LAMBDA r :
               Ret("ok", r.v, m1.ovf \/ r.o, FALSE, 0))
        ELSE Let(SquareLoop(fmt, [x |-> m1.x, result |-> m1.result,
                                  ovf |-> m1.ovf, i |-> 0],
                            Log2Iterations(fmt)),
                 LAMBDA m2 : Ret("ok", m2.result, m2.ovf, FALSE, m2.i))))

\* -log2_inner(inverse), after steps that overflowed or not (ovf)
NegatedLog2(fmt, inverse, ovf) ==
  Let(log2_inner(fmt, inverse), LAMBDA inner :
  Let(Neg(fmt, inner.v), LAMBDA n :
    Ret("ok", n.v, ovf \/ inner.ovf \/ n.o, FALSE, inner.iters)))

\* base 2 logarithm
log2(src, dst, x) ==
  IF ZLe(x, from_num(src, 0).v) THEN Ret("err", ZZero, FALSE, FALSE, 0)
  ELSE Let(FromFixed(src, dst, x), LAMBDA operand :
       Let(from_num(dst, 1), LAMBDA one :
         IF ZLt(operand, one.v)
         THEN Let(Reciprocal(dst, operand), LAMBDA inverse :
                IF ~inverse.some THEN Ret("ok", ZZero, inverse.o, TRUE, 0)
                ELSE NegatedLog2(dst, inverse.v, inverse.o))
         ELSE Let(log2_inner(dst, operand), LAMBDA inner :
                Ret("ok", inner.v, one.o \/ inner.ovf, FALSE, inner.iters))))

---------------------------------------------------------------------------
(* exp, ln, pow                                                            *)

\* log2(e): consts::LOG2_E (U1F127) >> 104
LOG2_E == ZInt(12102203)

\* e: consts::E (U2F126) >> 103
E == ZInt(22802600)

\* natural logarithm
ln(src, dst, x) ==
  Let(log2(src, dst, x), LAMBDA l :
    IF l.st = "err" \/ l.hp THEN l
    ELSE Let(Div(dst, l.v, FromFixed(ConstFmt, dst, LOG2_E)), LAMBDA q :
           Ret("ok", q.v, l.ovf \/ q.o, q.dz, l.iters)))

\* the Taylor terms summed in the loop: i in 2..D::frac_nbits()
ExpFirst == 2

ExpEnd(fmt) == fmt.F

\* the term of index i: term * operand / i is added to the result, and the
\* first checked operation to fail ends the loop
TaylorStep(fmt, operand, m) ==
  IF m.failed THEN m
  ELSE
    Let(checked_mul(fmt, m.term, operand), LAMBDA t1 :
      IF ~t1.some THEN [m EXCEPT !.failed = TRUE]
      ELSE
        Let(from_num(fmt, m.i), LAMBDA n :
        Let(checked_div(fmt, t1.v, n.v), LAMBDA t2 :
          IF ~t2.some THEN [m EXCEPT !.failed = TRUE, !.ovf = m.ovf \/ n.o]
          ELSE
            Let(checked_add(fmt, m.result, t2.v), LAMBDA r :
              IF ~r.some
              THEN [m EXCEPT !.failed = TRUE, !.ovf = m.ovf \/ n.o]
              ELSE [term |-> t2.v, result |-> r.v, i |-> m.i + 1,
                    n |-> m.n + 1, ovf |-> m.ovf \/ n.o, failed |-> FALSE]))))

\* the terms of the k indices from m.i on, the first half of them first
RECURSIVE TaylorLoop(_, _, _, _)
TaylorLoop(fmt, operand, m, k) ==
  IF k <= 0 THEN m
  ELSE IF k = 1 THEN TaylorStep(fmt, operand, m)
  ELSE Let(TaylorLoop(fmt, operand, m, k \div 2), LAMBDA first :
         IF first.failed THEN first
         ELSE TaylorLoop(fmt, operand, first, k - k \div 2))

\* a variant of the last step that returns the sum as it is
ExpFinishPlain(dst, neg, m) == Ret("ok", m.result, m.ovf, FALSE, m.n)

\* the last step of exp: the reciprocal of the sum for a negative argument
ExpFinish(dst, neg, m) ==
  IF ~neg THEN Ret("ok", m.result, m.ovf, FALSE, m.n)
  ELSE Let(Reciprocal(dst, m.result), LAMBDA recip :
         IF recip.some THEN Ret("ok", recip.v, m.ovf \/ recip.o, FALSE, m.n)
         ELSE Ret("err", ZZero, m.ovf \/ recip.o, FALSE, m.n))

\* the Taylor series of a nonnegative operand and the last step, after steps
\* that overflowed or not (ovf)
ExpSeries(dst, neg, operand, ovf) ==
  Let(from_num(dst, 1), LAMBDA one :
  Let(Add(dst, operand, one.v), LAMBDA result0 :
  Let(TaylorLoop(dst, operand,
                 [term |-> operand, result |-> result0.v, i |-> ExpFirst,
                  n |-> 0, ovf |-> ovf \/ one.o \/ result0.o,
                  failed |-> FALSE],
                 ExpEnd(dst) - ExpFirst),
      LAMBDA m :
        IF m.failed THEN Ret("err", ZZero, m.ovf, FALSE, m.n)
        ELSE ExpFinish(dst, neg, m))))

\* exponential function e^(operand)
exp(src, dst, x) ==
  IF CmpConst(src, x, ZERO) = 0
  THEN Let(from_num(dst, 1), LAMBDA one : Ret("ok", one.v, one.o, FALSE, 0))
  ELSE IF CmpConst(src, x, ONE) = 0
  THEN Ret("ok", FromFixed(ConstFmt, dst, E), FALSE, FALSE, 0)
  ELSE IF CmpConst(src, x, ZERO) < 0
  THEN Let(Neg(src, x), LAMBDA negated :
         ExpSeries(dst, TRUE, FromFixed(src, dst, negated.v), negated.o))
  ELSE ExpSeries(dst, FALSE, FromFixed(src, dst, x), FALSE)

\* result.overflowing_to_num::<D>() of a value of format src
overflowing_to_num(src, dst, x) ==
  Unchecked(dst, IF dst.F >= src.F THEN ZShl(x, dst.F - src.F)
                 ELSE ZShr(x, src.F - dst.F))

\* a pow result: a function's result and whether ln and exp were called
PowRet(r, calledLn, calledExp) ==
  [st |-> r.st, v |-> r.v, ovf |-> r.ovf, hp |-> r.hp, iters |-> r.iters,
   ln |-> calledLn, exp |-> calledExp]

\* exp of the product r, and the conversion of the result
PowExp(dst, r, ovf) ==
  Let(exp(dst, dst, r), LAMBDA e :
    IF e.st = "err" \/ e.hp
    THEN PowRet(Ret("err", ZZero, ovf \/ e.ovf, e.hp, e.iters), TRUE, TRUE)
    ELSE Let(overflowing_to_num(dst, dst, e.v), LAMBDA c :
           IF c.o
           THEN PowRet(Ret("err", ZZero, ovf \/ e.ovf, FALSE, e.iters),
                       TRUE, TRUE)
           ELSE PowRet(Ret("ok", c.v, ovf \/ e.ovf, FALSE, e.iters),
                       TRUE, TRUE)))

\* a variant of pow that takes the logarithm before it looks at the exponent
powLnFirst(src, dst, operand, exponent) ==
  Let(ln(src, dst, operand), LAMBDA l :
    IF l.st = "err" \/ l.hp THEN PowRet(l, TRUE, FALSE)
    ELSE IF exponent = from_num(src, 0).v
    THEN PowRet(Ret("ok", FromFixed(src, dst, operand), l.ovf, FALSE, 0),
                TRUE, FALSE)
    ELSE PowRet(Ret("ok", from_num(dst, 0).v, l.ovf, FALSE, 0), TRUE, FALSE))

\* power
pow(src, dst, operand, exponent) ==
  IF exponent = from_num(src, 0).v
  THEN PowRet(Ret("ok", FromFixed(src, dst, operand), FALSE, FALSE, 0),
              FALSE, FALSE)
  ELSE IF ZLt(exponent, from_num(src, 0).v)
  THEN Let(from_num(dst, 0), LAMBDA zero :
         PowRet(Ret("ok", zero.v, zero.o, FALSE, 0), FALSE, FALSE))
  ELSE
    Let(ln(src, dst, operand), LAMBDA l :
      IF l.st = "err" \/ l.hp THEN PowRet(l, TRUE, FALSE)
      ELSE
        Let(checked_mul(dst, l.v, FromFixed(src, dst, exponent)), LAMBDA r :
          IF ~r.some
          THEN PowRet(Ret("err", ZZero, l.ovf, FALSE, 0), TRUE, FALSE)
          ELSE PowExp(dst, r.v, l.ovf)))

---------------------------------------------------------------------------
(* sin, cos, tan on I9F23                                                  *)

\* 2*pi: consts::PI (U2F126) >> 102
TWO_PI == ZInt(52707178)

\* pi: consts::PI >> 103
PI == ZInt(26353589)

\* pi/2: consts::PI >> 104
FRAC_PI_2 == ZInt(13176794)

\* arctan(2^-i) lookup table for cordic: the U0F128 bit patterns, each cut to
\* its leading 28 bits (pattern >> 100)
ARCTAN_ANGLES ==
  << 210828714, 124459457, 65760959, 33381289,
     16755421, 8385878, 4193962, 2097109,
     1048570, 524287, 262143, 131071,
     65535, 32767, 16383, 8191,
     4095, 2047, 1023, 511,
     255, 127, 63, 31,
     15, 7, 3, 2,
     1, 0, 0, 0 >>

\* I9F23::lossy_from(angle) of table entry i (from 0): the pattern >> 105
ArctanAngle(i) == ZInt(ARCTAN_ANGLES[i + 1] \div 2^5)

\* the hard cap on the rotation steps: if i >= 24 { break; }
CordicIterations == 24

\* x0 = 1/K: I9F23::from_bits(0x004DBA75)
CordicGainInverse == ZInt(5094005)

\* one rotation: if z < ZERO { x += y >> i; y -= prev_x >> i; z += angle; }
\* else { x -= y >> i; y += prev_x >> i; z -= angle; }
CordicStep(m) ==
  Let(IF ZLt(m.z, ZERO)
      THEN << Add(ConstFmt, m.x, ZShr(m.y, m.i)),
              Sub(ConstFmt, m.y, ZShr(m.x, m.i)),
              Add(ConstFmt, m.z, ArctanAngle(m.i)) >>
      ELSE << Sub(ConstFmt, m.x, ZShr(m.y, m.i)),
              Add(ConstFmt, m.y, ZShr(m.x, m.i)),
              Sub(ConstFmt, m.z, ArctanAngle(m.i)) >>,
      LAMBDA n :
        [x |-> n[1].v, y |-> n[2].v, z |-> n[3].v, i |-> m.i + 1,
         ovf |-> m.ovf \/ n[1].o \/ n[2].o \/ n[3].o])

\* the rotations over the table, at most CordicIterations of them
RECURSIVE CordicLoop(_)
CordicLoop(m) ==
  IF m.i >= Len(ARCTAN_ANGLES) \/ m.i >= CordicIterations THEN m
  ELSE CordicLoop(CordicStep(m))

\* CORDIC in rotation mode.
cordic_rotation(x, y, z) == CordicLoop([x |-> x, y |-> y, z |-> z, i |-> 0, ovf |-> FALSE])

\* the angle after one more turn d of a wrap-around loop
Turned(m, d) == [angle |-> d.v, ovf |-> m.ovf \/ d.o, n |-> m.n + 1]

\* while angle > PI { angle -= TWO_PI; }
RECURSIVE WrapDown(_)
WrapDown(m) ==
  IF ~ZGt(m.angle, PI) THEN m
  ELSE WrapDown(Turned(m, Sub(ConstFmt, m.angle, TWO_PI)))

\* a variant that adds 2*pi at most once
WrapUpOnce(m) ==
  IF ~ZLt(m.angle, Neg(ConstFmt, PI).v) THEN m
  ELSE Turned(m, Add(ConstFmt, m.angle, TWO_PI))

\* while angle < -PI { angle += TWO_PI; }
RECURSIVE WrapUp(_)
WrapUp(m) ==
  IF ~ZLt(m.angle, Neg(ConstFmt, PI).v) THEN m
  ELSE WrapUp(Turned(m, Add(ConstFmt, m.angle, TWO_PI)))

\* if angle > FRAC_PI_2 { angle = FRAC_PI_2 - (angle - FRAC_PI_2); }
MirrorHigh(m) ==
  IF ~ZGt(m.angle, FRAC_PI_2) THEN m
  ELSE Let(Sub(ConstFmt, m.angle, FRAC_PI_2), LAMBDA d :
       Let(Sub(ConstFmt, FRAC_PI_2, d.v), LAMBDA r :
         [angle |-> r.v, ovf |-> m.ovf \/ d.o \/ r.o, n |-> m.n]))

\* a variant that leaves an angle below -pi/2 as it is
MirrorLowSkipped(m) == m

\* if angle < -FRAC_PI_2 { angle = -FRAC_PI_2 - (angle + FRAC_PI_2); }
MirrorLow(m) ==
  IF ~ZLt(m.angle, Neg(ConstFmt, FRAC_PI_2).v) THEN m
  ELSE Let(Add(ConstFmt, m.angle, FRAC_PI_2), LAMBDA d :
       Let(Sub(ConstFmt, Neg(ConstFmt, FRAC_PI_2).v, d.v), LAMBDA r :
         [angle |-> r.v, ovf |-> m.ovf \/ d.o \/ r.o, n |-> m.n]))

\* the range reduction of sin: [wrapped, reduced, ovf, n], the angle after the
\* two wrap-around loops, the angle after the two mirror steps, whether a step
\* overflowed, and the wrap-around iterations
Reduce(angle) ==
  Let(WrapUp(WrapDown([angle |-> angle, ovf |-> FALSE, n |-> 0])), LAMBDA w :
  Let(MirrorLow(MirrorHigh(w)), LAMBDA r :
    [wrapped |-> w.angle, reduced |-> r.angle, ovf |-> r.ovf, n |-> r.n]))

\* a trigonometric result: the value, and the range reduction behind it
TrigRet(v, ovf, hp, red) ==
  [st |-> "ok", v |-> v, ovf |-> ovf, hp |-> hp, iters |-> red.n,
   wrapped |-> red.wrapped, reduced |-> red.reduced, redovf |-> red.ovf]

\* sine function in radians
sin(angle) ==
  Let(Reduce(angle), LAMBDA red :
  Let(cordic_rotation(CordicGainInverse, ZERO, red.reduced), LAMBDA c :
    TrigRet(c.y, red.ovf \/ c.ovf, FALSE, red)))

\* cosine function in radians
cos(angle) ==
  Let(Add(ConstFmt, angle, FRAC_PI_2), LAMBDA a :
  Let(sin(a.v), LAMBDA s : [s EXCEPT !.ovf = s.ovf \/ a.o]))

\* sin(angle) / (ONE + cos(angle)) for the doubled angle a
TanQuotient(a) ==
  Let(sin(a.v), LAMBDA s :
  Let(cos(a.v), LAMBDA c :
  Let(Add(ConstFmt, ONE, c.v), LAMBDA d :
  Let(Div(ConstFmt, s.v, d.v), LAMBDA q :
    [s EXCEPT !.v = q.v, !.ovf = a.o \/ s.ovf \/ c.ovf \/ d.o \/ q.o,
              !.hp = q.dz]))))

\* tangent function in radians
tan(angle) == TanQuotient(Mul(ConstFmt, angle, TWO))

---------------------------------------------------------------------------
(* The callers.  A state is one call: the function, the source and the     *)
(* destination format, the arguments as bit patterns of the source format, *)
(* the build profile, and the call's outcome once it has run.              *)

\* the total width of the small formats, whose values are all enumerated
WordBits == 8

\* the fewest integer bits of a format: D::from_num(2) of sqrt and the
\* squares below 4 of log2_inner are representable from 3 integer bits on
MinIntBits == 3

\* FixedI8<U(WordBits - i)>, for every split with at least MinIntBits
SmallFormats == { Fmt(i, WordBits - i) : i \in MinIntBits..WordBits }

I9F23 == Fmt(9, 23)

I32F32 == Fmt(32, 32)

\* every bit pattern of a small format
AllBits(fmt) == { ZInt(n) : n \in -(2^(NBits(fmt) - 1))..(2^(NBits(fmt) - 1) - 1) }

\* I9F23 arguments of sqrt, log2 and ln: 0, 1, 2, 4, 9, 10, 0.1, 1/9, 0.5,
\* 2.9, 0.001, 22, 255, -1, the smallest positive value, MAX and MIN
RootSamples ==
  { ZInt(n) : n \in { 0, 8388608, 16777216, 33554432, 75497472, 83886080,
                      838860, 932067, 4194304, 24326963, 8389, 184549376,
                      2139095040, -8388608, 1, 2147483647 } }
    \cup { MinBits(I9F23) }

\* I9F23 arguments of exp: 0, +-1, +-2, +-3, +-4, +-5, +-6, +-0.5, +-0.25,
\* 1.5, 5.5, 255, 255.5, +-(the smallest positive value), MAX and MIN
ExpSamples ==
  { ZInt(n) : n \in { 0, 8388608, -8388608, 16777216, -16777216, 25165824,
                      -25165824, 33554432, -33554432, 41943040, -41943040,
                      50331648, -50331648, 4194304, -4194304, 2097152,
                      -2097152, 12582912, 46137344, 2139095040, 2143289344,
                      1, -1, 2147483647 } }
    \cup { MinBits(I9F23) }

\* I9F23 bases of pow: 0, -1, 1, 2, 2.9, 0.001, 10, MIN
PowBases ==
  { ZInt(n) : n \in { 0, -8388608, 8388608, 16777216, 24326963, 8389,
                      83886080 } }
    \cup { MinBits(I9F23) }

\* I9F23 exponents of pow: 0, -1, -0.5, the smallest negative value, MIN,
\* the smallest positive value, 0.5, 2, 3, 3.1
PowExponents ==
  { ZInt(n) : n \in { 0, -8388608, -4194304, -1, 1, 4194304, 16777216,
                      25165824, 26004685 } }
    \cup { MinBits(I9F23) }

\* I9F23 angles: 0, +-1 ulp, +-1 rad, +-pi/2 and its neighbours, +-pi and
\* its neighbours, +-(pi + pi/2), +-2pi, +-0.5, +-pi/4, 100, +-128, 200, the
\* angles next to MAX - pi/2, MAX and MIN
Angles ==
  { ZInt(n) : n \in { 0, 1, -1, 8388608, -8388608, 13176794, -13176794,
                      13176795, -13176795, 13176791, -13176791, 58988, -58988,
                      26353589, -26353589, 26353590, -26353590, 39530383,
                      -39530383, 52707178, -52707178, 4194304, -4194304,
                      6588397, -6588397, 838860800, 1073741824, -1073741824,
                      1677721600, 2134306853, 2134306854, 2147483647,
                      -2147483647 } }
    \cup { MinBits(I9F23) }

Builds == { "debug", "release" }

Functions == { "sqrt", "log2", "ln", "exp", "pow", "sin", "cos", "tan" }

\* the calls made of function f: <<source, destination, argument, second
\* argument>>
Calls(f) ==
  CASE f \in { "sqrt", "log2" } ->
         UNION { { <<d, d, x, ZZero>> : x \in AllBits(d) } : d \in SmallFormats }
           \cup { <<I9F23, d, x, ZZero>> : d \in { I9F23, I32F32 }, x \in RootSamples }
    [] f = "ln" ->
         { <<I9F23, d, x, ZZero>> : d \in { I9F23, I32F32 }, x \in RootSamples }
    [] f = "exp" ->
         { <<I9F23, d, x, ZZero>> : d \in { I9F23, I32F32 }, x \in ExpSamples }
    [] f = "pow" ->
         { <<I9F23, d, x, y>> : d \in { I9F23, I32F32 }, x \in PowBases,
                                y \in PowExponents }
    [] OTHER ->
         { <<I9F23, I9F23, x, ZZero>> : x \in Angles }

\* no call has run yet
Pending == [status |-> "pending"]

\* what the caller sees of result r in build b: an overflow of an unchecked
\* operation panics in a debug build and wraps in a release build
Outcome(b, r) ==
  ("status" :> (IF r.hp \/ (b = "debug" /\ r.ovf) THEN "panic" ELSE r.st)) @@ r

InitOf(fs) ==
  /\ fn \in fs
  /\ \E c \in Calls(fn) : S = c[1] /\ D = c[2] /\ arg = c[3] /\ arg2 = c[4]
  /\ build \in Builds
  /\ out = Pending

Init == InitOf(Functions)

Call(f, r) ==
  /\ fn = f
  /\ out = Pending
  /\ out' = Outcome(build, r)
  /\ UNCHANGED <<fn, S, D, arg, arg2, build>>

CallSqrt == Call("sqrt", sqrt(S, D, arg))

CallLog2 == Call("log2", log2(S, D, arg))

CallLn == Call("ln", ln(S, D, arg))

CallExp == Call("exp", exp(S, D, arg))

CallPow == Call("pow", pow(S, D, arg, arg2))

CallSin == Call("sin", sin(arg))

CallCos == Call("cos", cos(arg))

CallTan == Call("tan", tan(arg))

Next ==
  \/ CallSqrt
  \/ CallLog2
  \/ CallLn
  \/ CallExp
  \/ CallPow
  \/ CallSin
  \/ CallCos
  \/ CallTan

Spec == Init /\ [][Next]_vars

\* the callers of sqrt
SpecSqrt == InitOf({ "sqrt" }) /\ [][CallSqrt]_vars

\* the callers of log2 and ln
SpecLog2 == InitOf({ "log2", "ln" }) /\ [][CallLog2 \/ CallLn]_vars

\* the callers of exp
SpecExp == InitOf({ "exp" }) /\ [][CallExp]_vars

\* the callers of pow
SpecPow == InitOf({ "pow" }) /\ [][CallPow]_vars

\* the callers of sin, cos and tan
SpecTrig == InitOf({ "sin", "cos", "tan" }) /\ [][CallSin \/ CallCos \/ CallTan]_vars

\* the callers of the three functions whose loops run by the format's width
SpecLoops ==
  InitOf({ "sqrt", "log2", "exp" }) /\ [][CallSqrt \/ CallLog2 \/ CallExp]_vars

---------------------------------------------------------------------------
(* The claims.                                                             *)

\* the call of the state has run
Done == out.status # "pending"

\* the argument as a value of the destination format
ArgD == FromFixed(S, D, arg)

\* C1 (as claimed): sin, cos and tan return a value for every angle, with no
\* overflow in angle + pi/2 or angle * 2 and no division by zero.
C1_TrigNeverFails ==
  (fn \in { "sin", "cos", "tan" } /\ Done)
    => (out.status = "ok" /\ ~out.ovf /\ ~out.hp)

\* C2 (as claimed): log2 returns the error for x <= 0 and for 0 < x < 1 with
\* 1/x not representable in the destination format, and never aborts; for
\* every other input it returns a value, which for 0 < x < 1 is the negation
\* of the inner kernel applied to 1/x.
C2_Log2ErrorResult ==
  (fn = "log2" /\ Done) =>
    LET one     == from_num(D, 1).v
        inverse == checked_div(D, one, ArgD)
    IN  IF ZLe(arg, ZZero) THEN out.status = "err"
        ELSE IF ZLt(ArgD, one) /\ ~inverse.some THEN out.status = "err"
        ELSE /\ out.status = "ok"
             /\ ZLt(ArgD, one) => out.v = Neg(D, log2_inner(D, inverse.v).v).v

\* C3 (as claimed): every arithmetic step of exp yields a representable
\* result or makes exp return the error; no step wraps around or aborts.
C3_ExpStepsChecked ==
  (fn = "exp" /\ Done) => (out.status \in { "ok", "err" } /\ ~out.ovf)

\* C4: for every base, pow(base, 0) is Ok(base converted to the destination
\* format) and pow(base, e) with e < 0 is Ok(0), and ln and exp are called
\* only when the exponent is strictly positive.
C4_PowQuirks ==
  (fn = "pow" /\ Done) =>
    /\ arg2 = ZZero => (out.status = "ok" /\ out.v = ArgD)
    /\ ZLt(arg2, ZZero) => (out.status = "ok" /\ out.v = ZZero)
    /\ (out.ln \/ out.exp) => ZGt(arg2, ZZero)

\* C4 happens: pow of a negative base and of a zero base with a zero exponent,
\* and with a negative exponent, has returned
C4_Witness ==
  /\ fn = "pow" /\ Done
  /\ ZLe(arg, ZZero)
  /\ ZLe(arg2, ZZero)
  /\ out.status = "ok"

\* a^(2^k) by k squarings
RECURSIVE NSquared(_, _)
NSquared(a, k) == IF k = 0 THEN a ELSE NSquared(NMul(a, a), k - 1)

\* the bit pattern x > 0 is a power of two
IsPowerOfTwo(x) == x.mag = NShl(<<1>>, NBitLen(x.mag) - 1)

\* floor(2^F * log2(x / 2^F)) for the bit pattern x > 0 of format fmt, the
\* true logarithm in units of the last place:
\* floor(2^F * log2 x) = bitlength(x^(2^F)) - 1
Log2Floor(fmt, x) ==
  ZInt(NBitLen(NSquared(x.mag, fmt.F)) - 1 - fmt.F * 2^fmt.F)

\* the call is log2 of an argument >= 1 in a format whose true logarithm is
\* computed
Log2Case == fn = "log2" /\ Done /\ D \in SmallFormats /\ ZGe(ArgD, from_num(D, 1).v)

C6_SqrtConverges ==
  (fn = "sqrt" /\ Done /\ ZGt(ArgD, from_num(D, 1).v)) =>
    LET r == out.v
        x == ZShl(ArgD, D.F)
        lo == ZSub(r, ZInt(1))
        hi == ZAdd(r, ZInt(1))
    IN  /\ out.status = "ok"
        /\ ZLe(ZMul(lo, lo), x)
        /\ ZLe(x, ZMul(hi, hi))

\* the call took no fast path and did not fail
Iterated ==
  /\ Done
  /\ out.status = "ok"
  /\ CASE fn = "sqrt" -> ArgD # ZZero /\ ArgD # from_num(D, 1).v
       [] fn = "log2" ->
            LET one == from_num(D, 1).v
                k   == IF ZLt(ArgD, one) THEN checked_div(D, one, ArgD).v ELSE ArgD
            IN  HalveLoop(D, [x |-> k, result |-> ZZero, ovf |-> FALSE]).x # one
       [] fn = "exp" -> CmpConst(S, arg, ZERO) # 0 /\ CmpConst(S, arg, ONE) # 0
       [] OTHER -> FALSE

\* C7 (as claimed): the loops of sqrt, log2 and exp each run exactly F times.
C7_LoopsRunFTimes == Iterated => out.iters = D.F

\* C7 (amended): the Newton loop of sqrt and the refinement loop of log2 run
\* exactly F times; the Taylor loop of exp runs F - 2 times (i from 2 to
\* F - 1), so that the sum has F terms with the leading 1 + x.
C7_LoopCounts ==
  Iterated => out.iters = (IF fn = "exp" THEN D.F - ExpFirst ELSE D.F)

\* C7 happens: an exp call through the Taylor loop, in the 64-bit format
C7_Witness ==
  /\ fn = "exp" /\ Iterated
  /\ D = I32F32
  /\ out.iters = D.F - ExpFirst

\* the call is exp of a negative argument x, it has succeeded, and so does
\* exp of -x in the same build
ExpPair ==
  /\ fn = "exp" /\ Done
  /\ ZLt(arg, ZZero)
  /\ out.status = "ok"
  /\ ~Neg(S, arg).o
  /\ Outcome(build, exp(S, D, ZNeg(arg))).status = "ok"

\* 1 / exp(-x): D::from_num(1).checked_div(exp(-x))
ExpReciprocal == checked_div(D, from_num(D, 1).v, exp(S, D, ZNeg(arg)).v)

\* C8 (as claimed): for every negative x for which both calls succeed,
\* exp(x) = 1 / exp(-x), the argument -1 included.
C8_ExpIsReciprocal ==
  ExpPair => (ExpReciprocal.some /\ out.v = ExpReciprocal.v)

\* C8 (amended): for every negative x other than -1 for which both calls
\* succeed, exp(x) = 1 / exp(-x); exp(-1) is the reciprocal of the Taylor sum
\* of 1, not of the constant e that exp(1) returns.
C8_ExpIsReciprocalButAtMinusOne ==
  (ExpPair /\ CmpConst(S, ZNeg(arg), ONE) # 0)
    => (ExpReciprocal.some /\ out.v = ExpReciprocal.v)

\* C8 happens: exp of a negative argument other than -1 has returned a value
\* below one in the 64-bit format
C8_Witness ==
  /\ ExpPair
  /\ CmpConst(S, ZNeg(arg), ONE) # 0
  /\ D = I32F32
  /\ ZLt(out.v, from_num(D, 1).v)
  /\ ZGt(out.v, ZZero)

\* the call is sin of an angle x whose negation is representable
SinPair == fn = "sin" /\ Done /\ ~Neg(I9F23, arg).o

\* sin(-x) + sin(x), in units of the last place
SinOddDefect == ZAdd(sin(ZNeg(arg)).v, out.v)

\* C9 (as claimed): sin(-x) = -sin(x) for every angle x whose negation is
\* representable.
C9_SinOdd == SinPair => SinOddDefect = ZZero

\* C9 (amended): sin(-x) and -sin(x) differ by at most 29 units in the last
\* place of I9F23 for every angle x whose negation is representable.
C9_SinNearlyOdd == SinPair => ZLe(ZAbs(SinOddDefect), ZInt(29))

\* C9 happens: an angle at which sin(-x) and -sin(x) differ by the full 29
\* units
C9_Witness == SinPair /\ ZAbs(SinOddDefect) = ZInt(29)

\* C10: for every angle, after the two wrap-around loops of sin the angle
\* lies in [-PI, PI], after the two mirror steps it lies in
\* [-FRAC_PI_2, FRAC_PI_2], no step of the reduction overflows, and the
\* wrap-around loops end: their iterations times 2*pi stay within the span
\* of the format.
C10_ReductionInRange ==
  (fn \in { "sin", "cos", "tan" } /\ Done) =>
    /\ ZLe(ZNeg(PI), out.wrapped) /\ ZLe(out.wrapped, PI)
    /\ ZLe(ZNeg(FRAC_PI_2), out.reduced) /\ ZLe(out.reduced, FRAC_PI_2)
    /\ ~out.redovf
    /\ ZLt(ZMul(ZInt(out.iters), TWO_PI), ZShl(ZInt(1), NBits(I9F23)))

\* C10 happens: sin of the most negative angle has been reduced by wrapping
\* up and by mirroring
C10_Witness ==
  /\ fn = "sin" /\ Done
  /\ arg = MinBits(I9F23)
  /\ out.iters > 1
  /\ out.reduced # out.wrapped

====
